---------------------------- MODULE Spec2Model ----------------------------
(***************************************************************************)
(* Model of the FireSmart modem serial data logger                         *)
(* (Modem Custom Serial Test/modem_serial_test.ino): the packet validator, *)
(* the two capacity-bounded SPIFFS log files with their logging latches,   *)
(* the two-phase power sampling scheduler and the serial command table.    *)
(*                                                                         *)
(* Text is a sequence of one-character strings.  The build switch          *)
(* POWER_MONITOR_MODE is the variable powerMonitorMode, fixed at boot, so  *)
(* that both builds of the sketch are covered.  loop() is modelled as the  *)
(* sequence of its steps, ordered by pc; millis() is the variable now, a   *)
(* 32-bit counter held as <<high 16 bits, low 16 bits>>.                   *)
(***************************************************************************)
EXTENDS Integers, Sequences, FiniteSets, TLC

VARIABLES
  powerMonitorMode,       \* POWER_MONITOR_MODE of the build (line 6)
  mounted,                \* SPIFFS.begin succeeded in setup (line 106)
  sensorData,             \* the file /sensor_data.txt
  powerData,              \* the file /power_data.txt
  loggingEnabled,         \* line 35
  powerLoggingEnabled,    \* line 37
  printReceivedPackets,   \* line 34
  powerReadingScheduled,  \* line 23
  activeReadingTaken,     \* line 24
  lastSensorPacketTime,   \* line 22
  now,                    \* millis()
  pc,                     \* position in setup()/loop()
  receivedPacket,         \* the line held by loop() or by the validator
  obs,                    \* what the last step did with the storage
  seenFull,               \* per file: a size check saw size >= ceiling
  cycleActive,            \* active-phase samples taken since the last sleep firing
  cycleSleep,             \* sleep-phase samples written since the last active trigger
  appended,               \* records appended to the files since boot
  activeWritten,          \* the active-phase sample of the latest cycle was written
  arrivals,               \* <<timestamp, packet>> of the records written to the sensor
                          \* file since it was last created
  twin,                   \* two runs of the logger side by side (SpecTwin)
  handles                 \* the File objects that hold an open handle

vars == <<powerMonitorMode, mounted, sensorData, powerData, loggingEnabled,
          powerLoggingEnabled, printReceivedPackets, powerReadingScheduled,
          activeReadingTaken, lastSensorPacketTime, now, pc, receivedPacket,
          obs, seenFull, cycleActive, cycleSleep, appended, activeWritten,
          arrivals, twin, handles>>

-----------------------------------------------------------------------------
(* Program constants *)

MAX_FILE_SIZE == 300000

MAX_POWER_FILE_SIZE == 950000

\* The sleep-phase delay of line 167, in milliseconds.
SLEEP_DELAY_MS == 30000

\* Minimum packet length of line 51.
MIN_PACKET_LENGTH == 10

(* Bounds of the model *)

\* Records appended to the files in one run.
MaxRecords == 2

\* The clock runs freely while millis() < MaxClockSteps * ClockStep.
MaxClockSteps == 2

-----------------------------------------------------------------------------
(* Text *)

\* Telemetry header written when POWER_MONITOR_MODE is 1 (lines 130, 335, 474).
HeaderLocalPower ==
  <<"t","i","m","e","s","t","a","m","p","_","m","s",",","t","e","m",
    "p","_","C",",","h","u","m","_","p","c","t",",","p","r","e","s",
    "_","h","P","a",",","g","a","s","_","O","h","m",",","p","m","1",
    "_","s","t","d",",","p","m","2","_","5","_","s","t","d",",","p",
    "m","1","0","_","s","t","d">>

\* Telemetry header written when POWER_MONITOR_MODE is 0 (lines 132, 337, 476).
HeaderRemotePower ==
  <<"t","i","m","e","s","t","a","m","p","_","m","s",",","t","e","m",
    "p","_","C",",","h","u","m","_","p","c","t",",","p","r","e","s",
    "_","h","P","a",",","g","a","s","_","O","h","m",",","p","m","1",
    "_","s","t","d",",","p","m","2","_","5","_","s","t","d",",","p",
    "m","1","0","_","s","t","d",",","b","u","s","V","o","l","t","a",
    "g","e","_","V",",","c","u","r","r","e","n","t","_","m","A">>

\* Power header (lines 152, 370, 489).
PowerHeader ==
  <<"t","i","m","e","s","t","a","m","p","_","m","s",",","b","u","s",
    "V","o","l","t","a","g","e","_","V",",","c","u","r","r","e","n",
    "t","_","m","A",",","p","h","a","s","e">>

\* Command tokens compared with == in loop() (lines 279-301).

Tok_print == <<"p","r","i","n","t">>

Tok_show == <<"s","h","o","w">>

Tok_data == <<"d","a","t","a">>

Tok_printpower == <<"p","r","i","n","t","p","o","w","e","r">>

Tok_showpower == <<"s","h","o","w","p","o","w","e","r">>

Tok_power == <<"p","o","w","e","r">>

Tok_clear == <<"c","l","e","a","r">>

Tok_delete == <<"d","e","l","e","t","e">>

Tok_clearpower == <<"c","l","e","a","r","p","o","w","e","r">>

Tok_deletepower == <<"d","e","l","e","t","e","p","o","w","e","r">>

Tok_toggle == <<"t","o","g","g","l","e">>

Tok_quiet == <<"q","u","i","e","t">>

Tok_verbose == <<"v","e","r","b","o","s","e">>

Tok_status == <<"s","t","a","t","u","s">>

Tok_wipe == <<"w","i","p","e">>

Tok_format == <<"f","o","r","m","a","t">>

Tok_help == <<"h","e","l","p">>

Tok_qmark == <<"?">>

\* 7 fields, 26 characters
Line7 ==
  <<"2","3",".","5",",","4","4",",","1","0","0","3",".","2",",","9",
    "5","0","0","0",",","1",",","2",",","3">>

\* 7 fields, 51 characters
Line7Long ==
  <<"2","3",".","5","0",",","4","4",".","1","0",",","1","0","0","3",
    ".","2","5",",","9","5","0","0","0",".","0","0",",","1","0","0",
    "0","0",",","2","0","0","0","0",",","3","0","0","0","0",".","1",
    "2","3","4">>

\* 9 fields, 37 characters
Line9 ==
  <<"2","3",".","5",",","4","4",",","1","0","0","3",".","2",",","9",
    "5","0","0","0",",","1",",","2",",","3",",","3",".","7","1",",",
    "1","2","0",".","5">>

\* 9 fields, 51 characters
Line9Long ==
  <<"2","3",".","5","0",",","4","4",".","1","0",",","1","0","0","3",
    ".","2","5",",","9","5","0","0","0",".","0","0",",","1","0",",",
    "2","0",",","3","0",",","3",".","7","1","2",",","1","2","0",".",
    "5","1","2">>

\* The form feed (0x0C) and the vertical tab (0x0B), which isspace() accepts.
FormFeed == "\f"
VerticalTab == ""

\* The print command behind a form feed, and in front of one
RawFfPrint == <<FormFeed,"p","r","i","n","t">>
RawPrintFf == <<"p","r","i","n","t",FormFeed>>

\* The status command behind a vertical tab
RawVtStatus == <<VerticalTab,"s","t","a","t","u","s">>

\* 7 fields between blanks, a form feed and a vertical tab
Raw7Ff ==
  <<" ",FormFeed," ","1",",","2",",","3",",","4",",","5",",","6",",",
    "7","0","0","0"," ",VerticalTab>>

\* Line7 as sent by println, with a leading blank
Raw7 ==
  <<" ","2","3",".","5",",","4","4",",","1","0","0","3",".","2",",",
    "9","5","0","0","0",",","1",",","2",",","3","\r">>

\* 9 fields, leading minus sign
LineNeg9 ==
  <<"-","4",".","1",",","8","0",",","9","9","0",".","0",",","1","2",
    "0","0","0",",","0",",","0",",","0",",","3",".","6",",","9",".",
    "5">>

\* reboot banner with one comma
LineBoot ==
  <<"r","s","t",":","0","x","1"," ","(","P","O","W","E","R","O","N",
    ")",",","b","o","o","t",":","0","x","1">>

Line7Rst ==
  <<"1",",","2",",","3",",","4",",","5",",","6",",","r","s","t",":">>

Line9Boot ==
  <<"1",",","2",",","3",",","4",",","5",",","6",",","7",",","8",",",
    "b","o","o","t",":">>

Line7Ets ==
  <<"1",",","2",",","3",",","4",",","5",",","6",",","s","e","t","s">>

Line9Entry ==
  <<"1",",","2",",","3",",","4",",","5",",","6",",","7",",","8",",",
    "e","n","t","r","y">>

Line7Load ==
  <<"1",",","2",",","3",",","4",",","5",",","6",",","l","o","a","d",
    ":">>

Line9Cfg ==
  <<"1",",","2",",","3",",","4",",","5",",","6",",","7",",","8",",",
    "c","o","n","f","i","g","s","i","p",":">>

Line7Mode ==
  <<"1",",","2",",","3",",","4",",","5",",","6",",","m","o","d","e",
    ":">>

\* ten digits, no comma
LineNoComma ==
  <<"1","2","3","4","5","6","7","8","9","0">>

\* 7 fields, first character a letter
LineAlpha7 ==
  <<"a",",","2",",","3",",","4",",","5",",","6",",","7","8","9","0">>

\* 9 fields, first character a letter
LineAlpha9 ==
  <<"a",",","2",",","3",",","4",",","5",",","6",",","7",",","8",",",
    "9","0">>

\* 8 fields
Line8 ==
  <<"1",",","2",",","3",",","4",",","5",",","6",",","7",",","8","9">>

\* 7 fields, 7 characters
LineShort7 ==
  <<"1",",",",",",",",",",",",">>

\* 9 fields, 9 characters
LineShort9 ==
  <<"1",",",",",",",",",",",",",",",",">>

-----------------------------------------------------------------------------
(* String helpers of the Arduino core used by the sketch *)

Digits == {"0","1","2","3","4","5","6","7","8","9"}

isDigit(c) == c \in Digits

\* The characters isspace() accepts, which String::trim strips.
Whitespace == {" ", "\t", "\n", VerticalTab, FormFeed, "\r"}

\* String::indexOf: the 0-based index of the first occurrence, or -1.
indexOf(s, sub) ==
  LET hits == {i \in 1..(Len(s) - Len(sub) + 1) : SubSeq(s, i, i + Len(sub) - 1) = sub}
  IN  IF hits = {} THEN -1
      ELSE (CHOOSE i \in hits : \A j \in hits : i <= j) - 1

\* String::trim: drops leading and trailing whitespace.
trim(s) ==
  LET keep == {i \in 1..Len(s) : s[i] \notin Whitespace}
  IN  IF keep = {} THEN <<>>
      ELSE SubSeq(s, CHOOSE i \in keep : \A j \in keep : i <= j,
                     CHOOSE i \in keep : \A j \in keep : i >= j)

\* The comma counting loop of lines 69-72.
RECURSIVE CountCommas(_, _)
CountCommas(packet, i) ==
  IF i > Len(packet) THEN 0
  ELSE (IF packet[i] = "," THEN 1 ELSE 0) + CountCommas(packet, i + 1)

\* A variant of ExpectedCommas that holds the number of fields.
ExpectedCommas_Fields(mode) == IF mode = 1 THEN 7 ELSE 9

\* expectedCommas of lines 61-67.
ExpectedCommas(mode) == IF mode = 1 THEN 6 ELSE 8

\* isValidDataPacket, with its early returns in source order.
isValidDataPacket(packet, mode) ==
  IF Len(packet) < MIN_PACKET_LENGTH THEN FALSE
  ELSE IF ~isDigit(packet[1]) /\ packet[1] # "-" THEN FALSE
  ELSE IF indexOf(packet, <<",">>) = -1 THEN FALSE
  ELSE IF CountCommas(packet, 1) # ExpectedCommas(mode) THEN FALSE
  ELSE IF indexOf(packet, <<"e","t","s">>) # -1 THEN FALSE
  ELSE IF indexOf(packet, <<"r","s","t",":">>) # -1 THEN FALSE
  ELSE IF indexOf(packet, <<"b","o","o","t",":">>) # -1 THEN FALSE
  ELSE IF indexOf(packet, <<"c","o","n","f","i","g","s","i","p",":">>) # -1 THEN FALSE
  ELSE IF indexOf(packet, <<"l","o","a","d",":">>) # -1 THEN FALSE
  ELSE IF indexOf(packet, <<"e","n","t","r","y">>) # -1 THEN FALSE
  ELSE IF indexOf(packet, <<"m","o","d","e",":">>) # -1 THEN FALSE
  ELSE TRUE

-----------------------------------------------------------------------------
(* unsigned long: 32 bits, held as <<hi, lo>> with hi, lo in 0..65535 *)

Half == 2^16

U32(n) == <<(n \div Half) % Half, n % Half>>

\* a + b modulo 2^32
U32Add(a, b) ==
  LET lo == a[2] + b[2]
  IN  <<(a[1] + b[1] + (lo \div Half)) % Half, lo % Half>>

\* a - b modulo 2^32, the unsigned subtraction of line 167
U32Sub(a, b) ==
  LET lo == a[2] - b[2]
      borrow == IF lo < 0 THEN 1 ELSE 0
  IN  <<(a[1] - b[1] - borrow + 2 * Half) % Half, (lo + Half) % Half>>

U32Geq(a, b) == a[1] > b[1] \/ (a[1] = b[1] /\ a[2] >= b[2])

DigitChar(d) == <<"0","1","2","3","4","5","6","7","8","9">>[d + 1]

\* String(unsigned long): the decimal digits, most significant first.
RECURSIVE U32ToString(_)
U32ToString(u) ==
  LET t == (u[1] % 10) * Half + u[2]
      q == <<u[1] \div 10, t \div 10>>
      d == <<DigitChar(t % 10)>>
  IN  IF q = <<0, 0>> THEN d ELSE U32ToString(q) \o d

RECURSIVE NatToString(_)
NatToString(n) ==
  IF n < 10 THEN <<DigitChar(n)>> ELSE NatToString(n \div 10) \o <<DigitChar(n % 10)>>

\* String(float): two decimals, a minus sign in front of a negative value;
\* the reading is given in hundredths.
FloatToString(h) ==
  LET a == IF h < 0 THEN -h ELSE h
  IN  (IF h < 0 THEN <<"-">> ELSE <<>>)
        \o NatToString(a \div 100)
        \o <<".", DigitChar((a \div 10) % 10), DigitChar(a % 10)>>

-----------------------------------------------------------------------------
(* SPIFFS files.  A file is its existence, the bytes it held at boot (pre) *)
(* and the lines printed to it since, each followed by the terminator.     *)

\* Print::println ends every line with CR LF.
LineTerminator == <<"\r", "\n">>

Missing == [exists |-> FALSE, pre |-> 0, lines |-> <<>>]

\* A file just created by open(FILE_WRITE), or by open(FILE_APPEND) when absent.
EmptyFile == [exists |-> TRUE, pre |-> 0, lines |-> <<>>]

Stored(n) == [exists |-> TRUE, pre |-> n, lines |-> <<>>]

RECURSIVE LinesBytes(_)
LinesBytes(ls) ==
  IF ls = <<>> THEN 0
  ELSE Len(Head(ls)) + Len(LineTerminator) + LinesBytes(Tail(ls))

\* File::size()
FileSize(f) == IF f.exists THEN f.pre + LinesBytes(f.lines) ELSE 0

\* file.println(text) on a handle opened for append or write
Println(f, text) == [f EXCEPT !.lines = Append(@, text)]

\* SPIFFS.open(path, FILE_APPEND): the file is created when absent
OpenedForAppend(f) == IF f.exists THEN f ELSE EmptyFile

\* SPIFFS.open(path, FILE_READ) gives a valid handle only for an existing file
CanOpenRead(f, ok) == mounted /\ f.exists /\ ok

\* SPIFFS.open(path, FILE_APPEND or FILE_WRITE)
CanOpenWrite(ok) == mounted /\ ok

\* The header line of /sensor_data.txt (lines 129-133).
SensorHeader(mode) == IF mode = 1 THEN HeaderLocalPower ELSE HeaderRemotePower


-----------------------------------------------------------------------------
(* Records *)

\* timestampedPacket of line 244
TimestampedPacket(timestamp, packet) == U32ToString(timestamp) \o <<",">> \o packet

\* powerData of lines 183 and 215; phase is "s" or "a"
PowerRecord(timestamp, busVoltage, current, phase) ==
  U32ToString(timestamp) \o <<",">> \o FloatToString(busVoltage) \o <<",">>
    \o FloatToString(current) \o <<",", phase>>

\* INA226 readings <<bus voltage, current>>, in hundredths of V and mA;
\* getCurrent_mA() is signed.
Readings == {<<370, 12050>>, <<370, -50>>}

\* A variant of SleepDue without the delay: the reading is due at once.
SleepDue_NoDelay(t, last) == U32Geq(U32Sub(t, last), U32(0))

\* A variant of SleepDue that compares millis() with the deadline
\* lastSensorPacketTime + 30000 instead of subtracting.
SleepDue_Deadline(t, last) == U32Geq(t, U32Add(last, U32(SLEEP_DELAY_MS)))

\* millis() - lastSensorPacketTime >= 30000 (line 167)
SleepDue(t, last) == U32Geq(U32Sub(t, last), U32(SLEEP_DELAY_MS))

\* checkFile && checkFile.size() >= MAX (lines 136, 155, 174, 256)
CeilingReached(opened, size, cap) == opened /\ size >= cap

\* A variant of BelowCeiling with <= for <.
BelowCeiling_Inclusive(opened, size, cap) == opened /\ size <= cap

\* checkPowerFile && checkPowerFile.size() < MAX_POWER_FILE_SIZE (line 210)
BelowCeiling(opened, size, cap) == opened /\ size < cap

\* A variant of ActiveReadingDue without the once-per-cycle flag.
ActiveReadingDue_NoGuard(enabled, taken) == enabled

\* A variant of ActiveReadingDue without the logging latch.
ActiveReadingDue_NoLatch(enabled, taken) == ~taken

\* powerLoggingEnabled && !activeReadingTaken (line 204)
ActiveReadingDue(enabled, taken) == enabled /\ ~taken

-----------------------------------------------------------------------------
(* Observation of a step: which step ran and what it did with the storage. *)
(* check: the FILE_READ open of the size check; size: the size it read;    *)
(* open: the FILE_APPEND open; wrote: a line was printed to the file;      *)
(* len: the stored length before the step; bytes: the bytes of the record. *)

Obs(op, check, size, open, wrote, len, bytes) ==
  [op |-> op, check |-> check, size |-> size, open |-> open, wrote |-> wrote,
   len |-> len, bytes |-> bytes]

Quiet(op) == Obs(op, "none", -1, "none", FALSE, -1, 0)

\* The bytes println(text) adds to a file.
PrintlnBytes(text) == Len(text) + Len(LineTerminator)

-----------------------------------------------------------------------------
(* File handles: a successful SPIFFS.open gives the File object a handle,  *)
(* close() releases it.  The statements of a block are listed in order.    *)

Opened(name) == <<"open", name>>
Closed(name) == <<"close", name>>

\* The File objects holding a handle after the statements io ran from h.
RECURSIVE Held(_, _)
Held(h, io) ==
  IF io = <<>> THEN h
  ELSE Held(IF Head(io)[1] = "open" THEN h \cup {Head(io)[2]}
                                    ELSE h \ {Head(io)[2]},
            Tail(io))

\* if (file) { ...; file.close(); }: the block runs only with a valid handle.
OpenClose(name, valid) == IF valid THEN <<Opened(name), Closed(name)>> ELSE <<>>

\* setup(), lines 122-141 and 145-160.
SetupIO(mode, okData, okPower) ==
  OpenClose("dataFile", okData)
    \o (IF mode = 1 THEN OpenClose("powerFile", okPower) ELSE <<>>)

\* Lines 173-185 and 255-266: the check handle is closed at line 175 (257)
\* when the file is full and at line 179 (261) otherwise; the append handle
\* is closed at line 185 (266).
CheckedAppendIO(check, file, cap, o) ==
  IF o.check = "ok" /\ o.size >= cap
  THEN <<Opened(check), Closed(check)>>
  ELSE (IF o.check = "ok" THEN <<Opened(check), Closed(check)>> ELSE <<>>)
         \o OpenClose(file, o.open = "ok")

\* A variant of ActiveIO without the else-branch of lines 231-233.
ActiveIO_NoElse(o) ==
  IF o.check = "ok" /\ o.size < MAX_POWER_FILE_SIZE
  THEN <<Opened("checkPowerFile"), Closed("checkPowerFile")>>
         \o OpenClose("powerFile", o.open = "ok")
  ELSE IF o.check = "ok"
  THEN <<Opened("checkPowerFile")>>
  ELSE <<>>

\* Lines 209-233: the check handle is closed at line 211 when the file is
\* below its ceiling and at line 232 otherwise; the append handle at line 217.
ActiveIO(o) ==
  IF o.check = "ok" /\ o.size < MAX_POWER_FILE_SIZE
  THEN <<Opened("checkPowerFile"), Closed("checkPowerFile")>>
         \o OpenClose("powerFile", o.open = "ok")
  ELSE IF o.check = "ok"
  THEN <<Opened("checkPowerFile"), Closed("checkPowerFile")>>
  ELSE <<>>

\* printStoredData (317-322), printPowerData (353-358), printStatus (420-430
\* and 437-447), printHelp (no file).
ReadOnlyIO(route, mode, validData, validPower) ==
  IF route = "print" THEN OpenClose("file", validData)
  ELSE IF route = "printpower" THEN OpenClose("file", validPower)
  ELSE IF route = "status"
  THEN OpenClose("file", validData)
         \o (IF mode = 1 THEN OpenClose("powerFile", validPower) ELSE <<>>)
  ELSE <<>>

\* clearStoredData (332-339), clearPowerData (368-371): recreated is the
\* validity of the handle opened after the remove.
ClearIO(name, recreated) == OpenClose(name, recreated)

\* wipeAllFiles, lines 471-478 and 487-490.
WipeIO(createdData, createdPower) ==
  OpenClose("dataFile", createdData) \o OpenClose("powerFile", createdPower)

-----------------------------------------------------------------------------
(* Boot *)

\* What the flash may hold when the device boots: <<sensor file, power file>>.
InitialFlash(mode) ==
  IF mode = 1
  THEN { <<Missing, Missing>>, <<EmptyFile, EmptyFile>>,
         <<Stored(MAX_FILE_SIZE - 5), Stored(MAX_POWER_FILE_SIZE - 20)>>,
         <<Stored(MAX_FILE_SIZE), Stored(MAX_POWER_FILE_SIZE)>> }
  ELSE { <<Missing, Missing>>, <<EmptyFile, Missing>>,
         <<Stored(MAX_FILE_SIZE - 5), Missing>>, <<Stored(MAX_FILE_SIZE), Missing>> }

Init ==
  /\ powerMonitorMode \in {0, 1}
  /\ mounted = FALSE
  /\ \E flash \in InitialFlash(powerMonitorMode) :
       sensorData = flash[1] /\ powerData = flash[2]
  /\ loggingEnabled = TRUE
  /\ powerLoggingEnabled = TRUE
  /\ printReceivedPackets = TRUE
  /\ powerReadingScheduled = FALSE
  /\ activeReadingTaken = FALSE
  /\ lastSensorPacketTime = U32(0)
  /\ now = U32(0)
  /\ pc = "boot"
  /\ receivedPacket = <<>>
  /\ obs = Quiet("boot")
  /\ seenFull = [data |-> FALSE, power |-> FALSE]
  /\ cycleActive = 0
  /\ cycleSleep = 0
  /\ appended = 0
  /\ activeWritten = FALSE
  /\ arrivals = <<>>
  /\ twin = <<>>
  /\ handles = {}

\* Lines 122-141 and 145-160: open for append, write the header into an
\* empty file, clear the latch when the file is at its ceiling.
SetupFile(f, header, cap, latch, ok) ==
  IF ~ok THEN [file |-> f, latch |-> latch, full |-> FALSE]
  ELSE LET opened == OpenedForAppend(f)
           headed == IF FileSize(opened) = 0 THEN Println(opened, header) ELSE opened
           full   == CeilingReached(TRUE, FileSize(headed), cap)
       IN  [file |-> headed, latch |-> IF full THEN FALSE ELSE latch, full |-> full]

\* setup(), lines 87-162
Setup ==
  /\ pc = "boot"
  /\ \E sensorOk, mountOk, okData, okPower \in BOOLEAN :
       IF powerMonitorMode = 1 /\ ~sensorOk
       THEN \* ina226.init() failed: while(1){} (lines 96-98)
            /\ pc' = "halted"
            /\ obs' = Quiet("halt")
            /\ UNCHANGED <<mounted, sensorData, powerData, loggingEnabled,
                           powerLoggingEnabled, seenFull, handles>>
       ELSE IF ~mountOk
       THEN \* SPIFFS.begin failed: return (lines 106-109)
            /\ pc' = "loop"
            /\ obs' = Quiet("setup")
            /\ UNCHANGED <<mounted, sensorData, powerData, loggingEnabled,
                           powerLoggingEnabled, seenFull, handles>>
       ELSE LET d == SetupFile(sensorData, SensorHeader(powerMonitorMode),
                               MAX_FILE_SIZE, loggingEnabled, okData)
                p == IF powerMonitorMode = 1
                     THEN SetupFile(powerData, PowerHeader, MAX_POWER_FILE_SIZE,
                                    powerLoggingEnabled, okPower)
                     ELSE [file |-> powerData, latch |-> powerLoggingEnabled,
                           full |-> FALSE]
            IN  /\ mounted' = TRUE
                /\ sensorData' = d.file
                /\ loggingEnabled' = d.latch
                /\ powerData' = p.file
                /\ powerLoggingEnabled' = p.latch
                /\ seenFull' = [data |-> d.full, power |-> p.full]
                /\ obs' = Quiet("setup")
                /\ handles' = Held(handles, SetupIO(powerMonitorMode, okData, okPower))
                /\ pc' = "loop"
  /\ UNCHANGED <<powerMonitorMode, printReceivedPackets, powerReadingScheduled,
                 activeReadingTaken, lastSensorPacketTime, now, receivedPacket,
                 cycleActive, cycleSleep, appended, activeWritten, arrivals, twin>>

-----------------------------------------------------------------------------
(* loop(): the sleep-phase reading, lines 165-197 *)

Min(a, b) == IF a < b THEN a ELSE b

\* Lines 173-192: size check, then append of the sleep-phase record.
SleepAppend(f, latch, record, okCheck, okAppend) ==
  LET checked == CanOpenRead(f, okCheck)
      size    == FileSize(f)
  IN  IF CeilingReached(checked, size, MAX_POWER_FILE_SIZE)
      THEN [file |-> f, latch |-> FALSE, full |-> TRUE,
            obs |-> Obs("sleep", "ok", size, "none", FALSE, size, PrintlnBytes(record))]
      ELSE IF CanOpenWrite(okAppend)
      THEN [file |-> Println(OpenedForAppend(f), record), latch |-> latch, full |-> FALSE,
            obs |-> Obs("sleep", IF checked THEN "ok" ELSE "failed",
                        IF checked THEN size ELSE -1, "ok", TRUE, size,
                        PrintlnBytes(record))]
      ELSE [file |-> f, latch |-> latch, full |-> FALSE,
            obs |-> Obs("sleep", IF checked THEN "ok" ELSE "failed",
                        IF checked THEN size ELSE -1, "failed", FALSE, size,
                        PrintlnBytes(record))]

\* A variant of PowerSleepReading without the reset of line 195.
PowerSleepReading_KeepTaken ==
  /\ pc = "loop"
  /\ powerMonitorMode = 1
  /\ powerReadingScheduled /\ SleepDue(now, lastSensorPacketTime)
  /\ IF powerLoggingEnabled
     THEN \E r \in Readings, okCheck, okAppend \in BOOLEAN :
            LET a == SleepAppend(powerData, powerLoggingEnabled,
                                 PowerRecord(now, r[1], r[2], "s"),
                                 okCheck, okAppend)
            IN  /\ a.obs.wrote => appended < MaxRecords
                /\ appended' = appended + (IF a.obs.wrote THEN 1 ELSE 0)
                /\ powerData' = a.file
                /\ powerLoggingEnabled' = a.latch
                /\ seenFull' = [seenFull EXCEPT !.power = @ \/ a.full]
                /\ cycleSleep' = IF a.obs.wrote THEN Min(cycleSleep + 1, 2) ELSE cycleSleep
                /\ obs' = a.obs
                /\ handles' = Held(handles, CheckedAppendIO("checkPowerFile", "powerFile",
                                                            MAX_POWER_FILE_SIZE, a.obs))
     ELSE /\ obs' = Quiet("sleep")
          /\ UNCHANGED <<powerData, powerLoggingEnabled, seenFull, cycleSleep, appended,
                         handles>>
  /\ powerReadingScheduled' = FALSE
  /\ activeReadingTaken' = activeReadingTaken
  /\ cycleActive' = 0
  /\ pc' = "serial"
  /\ UNCHANGED <<powerMonitorMode, mounted, sensorData, loggingEnabled,
                 printReceivedPackets, lastSensorPacketTime, now, receivedPacket,
                 activeWritten, arrivals, twin>>

\* Lines 167-196, the condition of line 167 true.
PowerSleepReading ==
  /\ pc = "loop"
  /\ powerMonitorMode = 1
  /\ powerReadingScheduled /\ SleepDue(now, lastSensorPacketTime)
  /\ IF powerLoggingEnabled
     THEN \E r \in Readings, okCheck, okAppend \in BOOLEAN :
            LET a == SleepAppend(powerData, powerLoggingEnabled,
                                 PowerRecord(now, r[1], r[2], "s"),
                                 okCheck, okAppend)
            IN  /\ a.obs.wrote => appended < MaxRecords
                /\ appended' = appended + (IF a.obs.wrote THEN 1 ELSE 0)
                /\ powerData' = a.file
                /\ powerLoggingEnabled' = a.latch
                /\ seenFull' = [seenFull EXCEPT !.power = @ \/ a.full]
                /\ cycleSleep' = IF a.obs.wrote THEN Min(cycleSleep + 1, 2) ELSE cycleSleep
                /\ obs' = a.obs
                /\ handles' = Held(handles, CheckedAppendIO("checkPowerFile", "powerFile",
                                                            MAX_POWER_FILE_SIZE, a.obs))
     ELSE /\ obs' = Quiet("sleep")
          /\ UNCHANGED <<powerData, powerLoggingEnabled, seenFull, cycleSleep, appended,
                         handles>>
  /\ powerReadingScheduled' = FALSE
  /\ activeReadingTaken' = FALSE
  /\ cycleActive' = 0
  /\ pc' = "serial"
  /\ UNCHANGED <<powerMonitorMode, mounted, sensorData, loggingEnabled,
                 printReceivedPackets, lastSensorPacketTime, now, receivedPacket,
                 activeWritten, arrivals, twin>>

\* Line 167 false, or the block compiled out (POWER_MONITOR_MODE 0).
SleepNotDue ==
  /\ pc = "loop"
  /\ ~(powerMonitorMode = 1 /\ powerReadingScheduled
       /\ SleepDue(now, lastSensorPacketTime))
  /\ pc' = "serial"
  /\ obs' = Quiet("idle")
  /\ UNCHANGED <<powerMonitorMode, mounted, sensorData, powerData, loggingEnabled,
                 powerLoggingEnabled, printReceivedPackets, powerReadingScheduled,
                 activeReadingTaken, lastSensorPacketTime, now, receivedPacket,
                 seenFull, cycleActive, cycleSleep, appended, activeWritten,
                 arrivals, twin, handles>>

-----------------------------------------------------------------------------
(* loop(): Serial.available() and the active-phase reading, lines 200-235 *)

\* Line 200 false: nothing to read; the iteration ends with delay(10).
NoSerialData ==
  /\ pc = "serial"
  /\ pc' = "loop"
  /\ obs' = Quiet("idle")
  /\ UNCHANGED <<powerMonitorMode, mounted, sensorData, powerData, loggingEnabled,
                 powerLoggingEnabled, printReceivedPackets, powerReadingScheduled,
                 activeReadingTaken, lastSensorPacketTime, now, receivedPacket,
                 seenFull, cycleActive, cycleSleep, appended, activeWritten,
                 arrivals, twin, handles>>

\* Lines 209-233: size check, append of the active-phase record, scheduling.
\* taken: the branch of line 210 ran, so lines 226-230 set the scheduler.
ActiveAppend(f, record, okCheck, okAppend) ==
  LET checked == CanOpenRead(f, okCheck)
      size    == FileSize(f)
  IN  IF BelowCeiling(checked, size, MAX_POWER_FILE_SIZE)
      THEN IF CanOpenWrite(okAppend)
           THEN [file |-> Println(OpenedForAppend(f), record), taken |-> TRUE,
                 full |-> FALSE,
                 obs |-> Obs("active", "ok", size, "ok", TRUE, size, PrintlnBytes(record))]
           ELSE [file |-> f, taken |-> TRUE, full |-> FALSE,
                 obs |-> Obs("active", "ok", size, "failed", FALSE, size,
                             PrintlnBytes(record))]
      ELSE [file |-> f, taken |-> FALSE, full |-> checked,
            obs |-> Obs("active", IF checked THEN "ok" ELSE "failed",
                        IF checked THEN size ELSE -1, "none", FALSE, size,
                        PrintlnBytes(record))]

\* Line 200 true and line 204 true.
PowerActiveReading ==
  /\ pc = "serial"
  /\ powerMonitorMode = 1
  /\ ActiveReadingDue(powerLoggingEnabled, activeReadingTaken)
  /\ \E r \in Readings, okCheck, okAppend \in BOOLEAN :
       LET a == ActiveAppend(powerData, PowerRecord(now, r[1], r[2], "a"),
                             okCheck, okAppend)
       IN  /\ a.obs.wrote => appended < MaxRecords
           /\ appended' = appended + (IF a.obs.wrote THEN 1 ELSE 0)
           /\ powerData' = a.file
           /\ UNCHANGED powerLoggingEnabled
           /\ seenFull' = [seenFull EXCEPT !.power = @ \/ a.full]
           /\ obs' = a.obs
           /\ handles' = Held(handles, ActiveIO(a.obs))
           /\ IF a.taken
              THEN /\ activeReadingTaken' = TRUE
                   /\ lastSensorPacketTime' = now
                   /\ powerReadingScheduled' = TRUE
                   /\ cycleActive' = Min(cycleActive + 1, 2)
                   /\ cycleSleep' = 0
                   /\ activeWritten' = a.obs.wrote
              ELSE UNCHANGED <<activeReadingTaken, lastSensorPacketTime,
                               powerReadingScheduled, cycleActive, cycleSleep,
                               activeWritten>>
  /\ pc' = "read"
  /\ UNCHANGED <<powerMonitorMode, mounted, sensorData, loggingEnabled,
                 printReceivedPackets, now, receivedPacket, arrivals, twin>>

\* Line 200 true, line 204 false or compiled out.
SerialAvailable ==
  /\ pc = "serial"
  /\ ~(powerMonitorMode = 1 /\ ActiveReadingDue(powerLoggingEnabled, activeReadingTaken))
  /\ pc' = "read"
  /\ obs' = Quiet("skip")
  /\ UNCHANGED <<powerMonitorMode, mounted, sensorData, powerData, loggingEnabled,
                 powerLoggingEnabled, printReceivedPackets, powerReadingScheduled,
                 activeReadingTaken, lastSensorPacketTime, now, receivedPacket,
                 seenFull, cycleActive, cycleSleep, appended, activeWritten,
                 arrivals, twin, handles>>

-----------------------------------------------------------------------------
(* loop(): reading and dispatching the line, lines 237-310 *)

\* Lines the sender puts on the serial link, as read up to '\n': the
\* 9-field line of the sensor node that measures its own power, a boot
\* message and commands.  The 7-field lines are the validator's (ValidatorLines).
RawLines ==
  { Line9Long, LineBoot, Tok_print, RawFfPrint, Tok_status, RawVtStatus, Tok_clear,
    Tok_clearpower, Tok_toggle, Tok_wipe }

\* The else-if chain of lines 279-303 for a line that is not a data packet:
\* the command the line selects, "filtered" for the final else.
Command(packet, mode) ==
  IF packet \in {Tok_print, Tok_show, Tok_data} THEN "print"
  ELSE IF mode = 1 /\ packet \in {Tok_printpower, Tok_showpower, Tok_power} THEN "printpower"
  ELSE IF packet \in {Tok_clear, Tok_delete} THEN "clear"
  ELSE IF mode = 1 /\ packet \in {Tok_clearpower, Tok_deletepower} THEN "clearpower"
  ELSE IF packet \in {Tok_toggle, Tok_quiet, Tok_verbose} THEN "toggle"
  ELSE IF packet = Tok_status THEN "status"
  ELSE IF packet \in {Tok_wipe, Tok_format} THEN "wipe"
  ELSE IF packet \in {Tok_help, Tok_qmark} THEN "help"
  ELSE "filtered"

\* A variant of Route that matches a line against the command tokens only
\* when it got as far as the comma count of isValidDataPacket.
Route_DropShort(packet, mode) ==
  IF isValidDataPacket(packet, mode) THEN "telemetry"
  ELSE IF Len(packet) < MIN_PACKET_LENGTH THEN "filtered"
  ELSE IF ~isDigit(packet[1]) /\ packet[1] # "-" THEN "filtered"
  ELSE Command(packet, mode)

\* The branch of lines 241-303 taken for the line.
Route(packet, mode) ==
  IF isValidDataPacket(packet, mode) THEN "telemetry" ELSE Command(packet, mode)

\* A variant of TelemetryAppend that rejects a record which would carry the
\* file past its ceiling.
TelemetryAppend_Projected(f, latch, record, okCheck, okAppend) ==
  LET checked == CanOpenRead(f, okCheck)
      size    == FileSize(f)
  IN  IF CeilingReached(checked, size + PrintlnBytes(record), MAX_FILE_SIZE)
      THEN [file |-> f, latch |-> FALSE, full |-> TRUE,
            obs |-> Obs("telemetry", "ok", size, "none", FALSE, size, PrintlnBytes(record))]
      ELSE IF CanOpenWrite(okAppend)
      THEN [file |-> Println(OpenedForAppend(f), record), latch |-> latch, full |-> FALSE,
            obs |-> Obs("telemetry", IF checked THEN "ok" ELSE "failed",
                        IF checked THEN size ELSE -1, "ok", TRUE, size,
                        PrintlnBytes(record))]
      ELSE [file |-> f, latch |-> latch, full |-> FALSE,
            obs |-> Obs("telemetry", IF checked THEN "ok" ELSE "failed",
                        IF checked THEN size ELSE -1, "failed", FALSE, size,
                        PrintlnBytes(record))]

\* A variant of TelemetryAppend that disables logging when the append open fails.
TelemetryAppend_LatchOnFail(f, latch, record, okCheck, okAppend) ==
  LET checked == CanOpenRead(f, okCheck)
      size    == FileSize(f)
  IN  IF CeilingReached(checked, size, MAX_FILE_SIZE)
      THEN [file |-> f, latch |-> FALSE, full |-> TRUE,
            obs |-> Obs("telemetry", "ok", size, "none", FALSE, size, PrintlnBytes(record))]
      ELSE IF CanOpenWrite(okAppend)
      THEN [file |-> Println(OpenedForAppend(f), record), latch |-> latch, full |-> FALSE,
            obs |-> Obs("telemetry", IF checked THEN "ok" ELSE "failed",
                        IF checked THEN size ELSE -1, "ok", TRUE, size,
                        PrintlnBytes(record))]
      ELSE [file |-> f, latch |-> FALSE, full |-> FALSE,
            obs |-> Obs("telemetry", IF checked THEN "ok" ELSE "failed",
                        IF checked THEN size ELSE -1, "failed", FALSE, size,
                        PrintlnBytes(record))]

\* Lines 253-278: size check, then append of the timestamped packet.
TelemetryAppend(f, latch, record, okCheck, okAppend) ==
  LET checked == CanOpenRead(f, okCheck)
      size    == FileSize(f)
  IN  IF CeilingReached(checked, size, MAX_FILE_SIZE)
      THEN [file |-> f, latch |-> FALSE, full |-> TRUE,
            obs |-> Obs("telemetry", "ok", size, "none", FALSE, size, PrintlnBytes(record))]
      ELSE IF CanOpenWrite(okAppend)
      THEN [file |-> Println(OpenedForAppend(f), record), latch |-> latch, full |-> FALSE,
            obs |-> Obs("telemetry", IF checked THEN "ok" ELSE "failed",
                        IF checked THEN size ELSE -1, "ok", TRUE, size,
                        PrintlnBytes(record))]
      ELSE [file |-> f, latch |-> latch, full |-> FALSE,
            obs |-> Obs("telemetry", IF checked THEN "ok" ELSE "failed",
                        IF checked THEN size ELSE -1, "failed", FALSE, size,
                        PrintlnBytes(record))]

\* Lines 237-238: readStringUntil('\n') and trim().
ReadLine(raw) == trim(raw)

\* The frame of every dispatch step: receivedPacket goes out of scope and
\* the iteration ends with delay(10).
Dispatched ==
  /\ pc' = "loop"
  /\ receivedPacket' = <<>>
  /\ UNCHANGED <<powerMonitorMode, mounted, powerReadingScheduled, activeReadingTaken,
                 lastSensorPacketTime, now, cycleActive, cycleSleep, activeWritten,
                 twin>>

\* Lines 241-278: a valid data packet.
StoreTelemetry(packet) ==
  /\ pc = "read"
  /\ Route(packet, powerMonitorMode) = "telemetry"
  /\ IF loggingEnabled
     THEN \E okCheck, okAppend \in BOOLEAN :
            LET a == TelemetryAppend(sensorData, loggingEnabled,
                                     TimestampedPacket(now, packet),
                                     okCheck, okAppend)
            IN  /\ a.obs.wrote => appended < MaxRecords
                /\ appended' = appended + (IF a.obs.wrote THEN 1 ELSE 0)
                /\ sensorData' = a.file
                /\ loggingEnabled' = a.latch
                /\ seenFull' = [seenFull EXCEPT !.data = @ \/ a.full]
                /\ arrivals' = IF a.obs.wrote THEN Append(arrivals, <<now, packet>>)
                               ELSE arrivals
                /\ obs' = a.obs
                /\ handles' = Held(handles, CheckedAppendIO("checkFile", "dataFile",
                                                            MAX_FILE_SIZE, a.obs))
     ELSE /\ obs' = Quiet("telemetry")
          /\ UNCHANGED <<sensorData, loggingEnabled, seenFull, appended, arrivals,
                         handles>>
  /\ Dispatched
  /\ UNCHANGED <<powerData, powerLoggingEnabled, printReceivedPackets>>

\* A variant of the read-only commands in which the status report refreshes
\* the sensor latch from the file size.
ReadOnlyCommand_Refresh(packet) ==
  /\ pc = "read"
  /\ Route(packet, powerMonitorMode) \in {"print", "printpower", "status", "help"}
  /\ obs' = Quiet("readonly")
  /\ \E okData, okPower \in BOOLEAN :
       handles' = Held(handles, ReadOnlyIO(Route(packet, powerMonitorMode),
                                           powerMonitorMode,
                                           CanOpenRead(sensorData, okData),
                                           CanOpenRead(powerData, okPower)))
  /\ loggingEnabled' = (FileSize(sensorData) < MAX_FILE_SIZE)
  /\ Dispatched
  /\ UNCHANGED <<appended, arrivals>>
  /\ UNCHANGED <<sensorData, powerData, powerLoggingEnabled,
                 printReceivedPackets, seenFull>>

\* printStoredData (lines 316-326), printPowerData (352-362), printStatus
\* (408-462) and printHelp (384-399) open for reading, print and close.
ReadOnlyCommand(packet) ==
  /\ pc = "read"
  /\ Route(packet, powerMonitorMode) \in {"print", "printpower", "status", "help"}
  /\ obs' = Quiet("readonly")
  /\ \E okData, okPower \in BOOLEAN :
       handles' = Held(handles, ReadOnlyIO(Route(packet, powerMonitorMode),
                                           powerMonitorMode,
                                           CanOpenRead(sensorData, okData),
                                           CanOpenRead(powerData, okPower)))
  /\ Dispatched
  /\ UNCHANGED <<appended, arrivals>>
  /\ UNCHANGED <<sensorData, powerData, loggingEnabled, powerLoggingEnabled,
                 printReceivedPackets, seenFull>>

\* Lines 303-309: no branch matched; the line is echoed in verbose mode.
Filtered(packet) ==
  /\ pc = "read"
  /\ Route(packet, powerMonitorMode) = "filtered"
  /\ obs' = Quiet("idle")
  /\ UNCHANGED handles
  /\ Dispatched
  /\ UNCHANGED <<appended, arrivals>>
  /\ UNCHANGED <<sensorData, powerData, loggingEnabled, powerLoggingEnabled,
                 printReceivedPackets, seenFull>>

\* A variant of togglePrintMode that flips the logging latch.
TogglePrintMode_Latch(packet) ==
  /\ pc = "read"
  /\ Route(packet, powerMonitorMode) = "toggle"
  /\ loggingEnabled' = ~loggingEnabled
  /\ obs' = Quiet("command")
  /\ UNCHANGED handles
  /\ Dispatched
  /\ UNCHANGED <<appended, arrivals>>
  /\ UNCHANGED <<sensorData, powerData, printReceivedPackets, powerLoggingEnabled, seenFull>>

\* togglePrintMode, lines 401-406
TogglePrintMode(packet) ==
  /\ pc = "read"
  /\ Route(packet, powerMonitorMode) = "toggle"
  /\ printReceivedPackets' = ~printReceivedPackets
  /\ obs' = Quiet("command")
  /\ UNCHANGED handles
  /\ Dispatched
  /\ UNCHANGED <<appended, arrivals>>
  /\ UNCHANGED <<sensorData, powerData, loggingEnabled, powerLoggingEnabled, seenFull>>

\* A variant of ClearFile that leaves the latch as it was.
ClearFile_KeepLatch(f, header, latch, okRemove, okCreate) ==
  IF ~(mounted /\ f.exists /\ okRemove)
  THEN [file |-> f, latch |-> latch, cleared |-> FALSE]
  ELSE IF ~CanOpenWrite(okCreate)
  THEN [file |-> Missing, latch |-> latch, cleared |-> FALSE]
  ELSE [file |-> Println(EmptyFile, header), latch |-> latch, cleared |-> TRUE]

\* Lines 329-348 and 365-380: remove the file, recreate it with its header
\* and set the latch; nothing changes when remove fails.
ClearFile(f, header, latch, okRemove, okCreate) ==
  IF ~(mounted /\ f.exists /\ okRemove)
  THEN [file |-> f, latch |-> latch, cleared |-> FALSE]
  ELSE IF ~CanOpenWrite(okCreate)
  THEN [file |-> Missing, latch |-> latch, cleared |-> FALSE]
  ELSE [file |-> Println(EmptyFile, header), latch |-> TRUE, cleared |-> TRUE]

\* clearStoredData, lines 328-349
ClearStoredData(packet) ==
  /\ pc = "read"
  /\ Route(packet, powerMonitorMode) = "clear"
  /\ \E okRemove, okCreate \in BOOLEAN :
       LET c == ClearFile(sensorData, SensorHeader(powerMonitorMode), loggingEnabled,
                          okRemove, okCreate)
       IN  /\ sensorData' = c.file
           /\ loggingEnabled' = c.latch
           /\ seenFull' = [seenFull EXCEPT !.data = @ /\ ~c.cleared]
           /\ arrivals' = IF c.file.exists /\ ~c.cleared THEN arrivals ELSE <<>>
           /\ obs' = Obs("clear", "none", -1, IF c.cleared THEN "ok" ELSE "failed",
                         c.cleared, FileSize(sensorData), 0)
           /\ handles' = Held(handles, ClearIO("dataFile", c.cleared))
  /\ Dispatched
  /\ UNCHANGED appended
  /\ UNCHANGED <<powerData, powerLoggingEnabled, printReceivedPackets>>

\* clearPowerData, lines 364-381
ClearPowerData(packet) ==
  /\ pc = "read"
  /\ Route(packet, powerMonitorMode) = "clearpower"
  /\ \E okRemove, okCreate \in BOOLEAN :
       LET c == ClearFile(powerData, PowerHeader, powerLoggingEnabled, okRemove, okCreate)
       IN  /\ powerData' = c.file
           /\ powerLoggingEnabled' = c.latch
           /\ seenFull' = [seenFull EXCEPT !.power = @ /\ ~c.cleared]
           /\ obs' = Obs("clearpower", "none", -1, IF c.cleared THEN "ok" ELSE "failed",
                         c.cleared, FileSize(powerData), 0)
           /\ handles' = Held(handles, ClearIO("powerFile", c.cleared))
  /\ Dispatched
  /\ UNCHANGED <<appended, arrivals>>
  /\ UNCHANGED <<sensorData, loggingEnabled, printReceivedPackets>>

\* Lines 471-483 and 487-495: after the format, recreate one file.
RecreateFile(header, latch, okCreate) ==
  IF CanOpenWrite(okCreate)
  THEN [file |-> Println(EmptyFile, header), latch |-> TRUE, created |-> TRUE]
  ELSE [file |-> Missing, latch |-> latch, created |-> FALSE]

\* wipeAllFiles, lines 464-502
WipeAllFiles(packet) ==
  /\ pc = "read"
  /\ Route(packet, powerMonitorMode) = "wipe"
  /\ \E okFormat, okData, okPower \in BOOLEAN :
       IF ~okFormat
       THEN /\ obs' = Obs("wipe", "none", -1, "failed", FALSE, -1, 0)
            /\ UNCHANGED <<sensorData, powerData, loggingEnabled, powerLoggingEnabled,
                           seenFull, arrivals, handles>>
       ELSE LET d == RecreateFile(SensorHeader(powerMonitorMode), loggingEnabled, okData)
                p == IF powerMonitorMode = 1
                     THEN RecreateFile(PowerHeader, powerLoggingEnabled, okPower)
                     ELSE [file |-> Missing, latch |-> powerLoggingEnabled,
                           created |-> FALSE]
            IN  /\ sensorData' = d.file
                /\ loggingEnabled' = d.latch
                /\ powerData' = p.file
                /\ powerLoggingEnabled' = p.latch
                /\ seenFull' = [data  |-> seenFull.data /\ ~d.created,
                                power |-> seenFull.power /\ ~p.created]
                /\ arrivals' = <<>>
                /\ obs' = Obs("wipe", "none", -1, "ok", d.created \/ p.created, -1, 0)
                /\ handles' = Held(handles, WipeIO(d.created, p.created))
  /\ Dispatched
  /\ UNCHANGED appended
  /\ UNCHANGED printReceivedPackets

-----------------------------------------------------------------------------
(* The end of the iteration and the clock *)

\* One advance of millis() in the model.
ClockStep == SLEEP_DELAY_MS \div 2

\* The clock runs while below the model's horizon or just before the wrap.
ClockFree ==
  \/ now[1] # 0
  \/ now[2] < MaxClockSteps * ClockStep

\* millis() advances while the sketch runs.
Tick ==
  /\ pc \notin {"boot", "halted"}
  /\ ClockFree
  /\ now' = U32Add(now, U32(ClockStep))
  /\ obs' = Quiet("idle")
  /\ UNCHANGED <<powerMonitorMode, mounted, sensorData, powerData, loggingEnabled,
                 powerLoggingEnabled, printReceivedPackets, powerReadingScheduled,
                 activeReadingTaken, lastSensorPacketTime, pc, receivedPacket,
                 seenFull, cycleActive, cycleSleep, appended, activeWritten,
                 arrivals, twin, handles>>

\* Idle iterations of loop() (no serial data, nothing scheduled) for
\* 2^32 - ClockStep milliseconds, from the instant millis() is 0: only
\* millis() changes, to one clock step before its wrap.
IdleUntilWrap ==
  /\ pc = "loop"
  /\ ~powerReadingScheduled
  /\ now = U32(0)
  /\ now' = U32Sub(now, U32(ClockStep))
  /\ obs' = Quiet("idle")
  /\ UNCHANGED <<powerMonitorMode, mounted, sensorData, powerData, loggingEnabled,
                 powerLoggingEnabled, printReceivedPackets, powerReadingScheduled,
                 activeReadingTaken, lastSensorPacketTime, pc, receivedPacket,
                 seenFull, cycleActive, cycleSleep, appended, activeWritten,
                 arrivals, twin, handles>>

Next ==
  \/ Setup
  \/ PowerSleepReading
  \/ SleepNotDue
  \/ NoSerialData
  \/ PowerActiveReading
  \/ SerialAvailable
  \/ \E raw \in RawLines : StoreTelemetry(ReadLine(raw))
  \/ \E raw \in RawLines : ReadOnlyCommand(ReadLine(raw))
  \/ \E raw \in RawLines : Filtered(ReadLine(raw))
  \/ \E raw \in RawLines : TogglePrintMode(ReadLine(raw))
  \/ \E raw \in RawLines : ClearStoredData(ReadLine(raw))
  \/ \E raw \in RawLines : ClearPowerData(ReadLine(raw))
  \/ \E raw \in RawLines : WipeAllFiles(ReadLine(raw))
  \/ Tick
  \/ IdleUntilWrap

Spec == Init /\ [][Next]_vars

-----------------------------------------------------------------------------
(* The classification of a line on its own: isValidDataPacket applied to   *)
(* each line of ValidatorLines under both builds.                          *)

\* Lines as read up to '\n', before trim().
ValidatorLines ==
  { Line7, Line7Long, Line9, Line9Long, Raw7, Raw7Ff, RawFfPrint, RawPrintFf,
    RawVtStatus, LineNeg9, LineBoot, Line7Rst,
    Line9Boot, Line7Ets, Line9Entry, Line7Load, Line9Cfg, Line7Mode, LineNoComma,
    LineAlpha7, LineAlpha9, Line8, LineShort7, LineShort9,
    Tok_print, Tok_show, Tok_data, Tok_printpower, Tok_showpower, Tok_power,
    Tok_clear, Tok_delete, Tok_clearpower, Tok_deletepower, Tok_toggle, Tok_quiet,
    Tok_verbose, Tok_status, Tok_wipe, Tok_format, Tok_help, Tok_qmark }

\* A line has been read and trimmed (lines 237-238); nothing else has run.
InitValidator ==
  /\ powerMonitorMode \in {0, 1}
  /\ \E raw \in ValidatorLines : receivedPacket = ReadLine(raw)
  /\ pc = "classify"
  /\ obs = Quiet("none")
  /\ mounted = FALSE
  /\ sensorData = Missing
  /\ powerData = Missing
  /\ loggingEnabled = TRUE
  /\ powerLoggingEnabled = TRUE
  /\ printReceivedPackets = TRUE
  /\ powerReadingScheduled = FALSE
  /\ activeReadingTaken = FALSE
  /\ lastSensorPacketTime = U32(0)
  /\ now = U32(0)
  /\ seenFull = [data |-> FALSE, power |-> FALSE]
  /\ cycleActive = 0
  /\ cycleSleep = 0
  /\ appended = 0
  /\ activeWritten = FALSE
  /\ arrivals = <<>>
  /\ twin = <<>>
  /\ handles = {}

\* Line 241: if (isValidDataPacket(receivedPacket)).
Classify ==
  /\ pc = "classify"
  /\ pc' = "classified"
  /\ obs' = Quiet(IF isValidDataPacket(receivedPacket, powerMonitorMode)
                 THEN "telemetry" ELSE "ignored")
  /\ UNCHANGED <<powerMonitorMode, mounted, sensorData, powerData, loggingEnabled,
                 powerLoggingEnabled, printReceivedPackets, powerReadingScheduled,
                 activeReadingTaken, lastSensorPacketTime, now, receivedPacket,
                 seenFull, cycleActive, cycleSleep, appended, activeWritten,
                 arrivals, twin, handles>>

\* Lines 241-303: the branch of the if / else-if chain the line selects.
SelectBranch ==
  /\ pc = "classified"
  /\ pc' = "routed"
  /\ obs' = Quiet(Route(receivedPacket, powerMonitorMode))
  /\ UNCHANGED <<powerMonitorMode, mounted, sensorData, powerData, loggingEnabled,
                 powerLoggingEnabled, printReceivedPackets, powerReadingScheduled,
                 activeReadingTaken, lastSensorPacketTime, now, receivedPacket,
                 seenFull, cycleActive, cycleSleep, appended, activeWritten,
                 arrivals, twin, handles>>

NextValidator == Classify \/ SelectBranch

SpecValidator == InitValidator /\ [][NextValidator]_vars

\* Lines 6-10 and 61-67: with POWER_MONITOR_MODE 0 the power sensor is on
\* the remote sensor node, with 1 it is on this modem.
PowerSensorAtSensorNode(mode) == mode = 0

\* printStoredData, lines 321-324: the bytes of the file, written to Serial.
RECURSIVE printStoredData(_)
printStoredData(ls) ==
  IF ls = <<>> THEN <<>>
  ELSE Head(ls) \o LineTerminator \o printStoredData(Tail(ls))

-----------------------------------------------------------------------------
(* Properties *)

AppendOps == {"telemetry", "active", "sleep"}

\* The ceiling of the file an append step writes to.
Capacity(op) == IF op = "telemetry" THEN MAX_FILE_SIZE ELSE MAX_POWER_FILE_SIZE

Scheduler == <<lastSensorPacketTime, powerReadingScheduled, activeReadingTaken>>

\* C1: a latch that is false stays false on every step but a clear of its
\* stream (clear for the sensor file, clearpower for the power file) or a wipe.
C1_LatchMonotone ==
  [][ /\ (~loggingEnabled /\ loggingEnabled') => obs'.op \in {"clear", "wipe"}
      /\ (~powerLoggingEnabled /\ powerLoggingEnabled')
           => obs'.op \in {"clearpower", "wipe"} ]_vars

\* A data packet arrived while loggingEnabled was false, and it is still false.
C1_Witness ==
  ~loggingEnabled /\ obs.op = "telemetry" /\ obs.check = "none" /\ pc = "loop"

\* C2: no two active-phase samples are taken without a sleep-phase firing
\* between them: the count of samples taken since the last firing is at most
\* one, and it is one exactly while activeReadingTaken is set.
C2_OneActivePerCycle ==
  /\ cycleActive <= 1
  /\ activeReadingTaken <=> cycleActive = 1

\* Serial data arrived while activeReadingTaken was set: no sample was taken.
C2_Witness ==
  activeReadingTaken /\ obs.op = "skip" /\ pc = "read" /\ cycleActive = 1

\* C3 as stated: the sleep-phase firing of a cycle whose active-phase sample
\* was recorded records exactly one 's' sample.
C3_Original ==
  (obs.op = "sleep" /\ activeWritten) => (obs.wrote /\ cycleSleep = 1)

\* C3, amended: the firing runs within a cycle, no earlier than 30 s (modulo
\* 2^32) after its trigger, with no 's' sample of the cycle recorded yet, and
\* ends the cycle.  It records exactly one 's' sample, stamped millis(), when
\* its size check reads a length below the ceiling and the open for append
\* succeeds; it records none when the size check reads a length at or above
\* the ceiling or the open for append fails; it never records more than one.
\* No other step records an 's' sample, and no active-phase sample is
\* recorded within a cycle.
C3_OneSleepPerCycle ==
  [][ /\ obs'.op = "sleep" =>
           /\ powerReadingScheduled /\ activeReadingTaken
           /\ U32Geq(U32Sub(now, lastSensorPacketTime), U32(SLEEP_DELAY_MS))
           /\ cycleSleep = 0
           /\ ~powerReadingScheduled' /\ ~activeReadingTaken'
           /\ (powerLoggingEnabled /\ obs'.check = "ok"
                 /\ obs'.size < MAX_POWER_FILE_SIZE /\ obs'.open = "ok")
                => (\E r \in Readings :
                      powerData' = Println(powerData,
                                           PowerRecord(now, r[1], r[2], "s")))
           /\ (~powerLoggingEnabled
                 \/ (obs'.check = "ok" /\ obs'.size >= MAX_POWER_FILE_SIZE)
                 \/ obs'.open = "failed")
                => powerData' = powerData
           /\ \/ powerData' = powerData
              \/ \E r \in Readings :
                   powerData' = Println(OpenedForAppend(powerData),
                                        PowerRecord(now, r[1], r[2], "s"))
      /\ (obs'.op # "sleep" /\ Len(powerData'.lines) > Len(powerData.lines))
           => LET line == powerData'.lines[Len(powerData'.lines)]
              IN  SubSeq(line, Len(line) - 1, Len(line)) # <<",", "s">>
      /\ (obs'.op = "active" /\ obs'.wrote) => ~activeReadingTaken
    ]_vars

\* A cycle whose 'a' sample was recorded had its 's' sample recorded.
C3_Witness ==
  obs.op = "sleep" /\ obs.wrote /\ activeWritten /\ cycleSleep = 1

\* C4 as stated, in its second form: every write starts from a stored
\* length below the ceiling.
C4_Original ==
  (obs.op \in AppendOps /\ obs.wrote) => obs.len < Capacity(obs.op)

\* C5 as stated: a 55-byte record offered to a file of MAX_FILE_SIZE - 5
\* bytes is rejected, the length is unchanged and the latch is false.
C5_Original ==
  (obs.op = "telemetry" /\ obs.check = "ok" /\ obs.size = MAX_FILE_SIZE - 5
     /\ obs.bytes = 55)
  => (~obs.wrote /\ FileSize(sensorData) = MAX_FILE_SIZE - 5 /\ ~loggingEnabled)

\* C5, amended: unless its open fails, a 55-byte record offered to a file of
\* MAX_FILE_SIZE - 5 bytes is written, the length becomes MAX_FILE_SIZE + 50
\* and the latch stays true; the next attempt, reading MAX_FILE_SIZE + 50,
\* writes nothing and clears the latch.
C5_RejectedOnNextAttempt ==
  /\ (obs.op = "telemetry" /\ obs.check = "ok" /\ obs.size = MAX_FILE_SIZE - 5
        /\ obs.bytes = 55 /\ obs.open # "failed")
     => (obs.wrote /\ FileSize(sensorData) = MAX_FILE_SIZE + 50 /\ loggingEnabled)
  /\ (obs.op = "telemetry" /\ obs.check = "ok" /\ obs.size = MAX_FILE_SIZE + 50)
     => (~obs.wrote /\ FileSize(sensorData) = MAX_FILE_SIZE + 50 /\ ~loggingEnabled)

\* The 55-byte record was written to the file of MAX_FILE_SIZE - 5 bytes.
C5_Witness ==
  /\ obs.op = "telemetry" /\ obs.size = MAX_FILE_SIZE - 5 /\ obs.bytes = 55
  /\ obs.wrote /\ FileSize(sensorData) = MAX_FILE_SIZE + 50

\* C6 as stated: after any clear the file is length(header) + 1 bytes long
\* and its latch is true.
C6_Original ==
  /\ obs.op = "clear" =>
       /\ FileSize(sensorData) = Len(SensorHeader(powerMonitorMode)) + 1
       /\ loggingEnabled
  /\ obs.op = "clearpower" =>
       /\ FileSize(powerData) = Len(PowerHeader) + 1
       /\ powerLoggingEnabled

\* C6, amended: after a clear that succeeds (the file existed, the remove
\* and the re-create succeeded) the file holds the header line only, is
\* length(header) + 2 bytes long (println ends the line with CR LF) and its
\* latch is true, whatever the file held before; the state after a
\* successful clear is therefore the same after a second one.
C6_ClearIsCanonical ==
  /\ (obs.op = "clear" /\ obs.wrote) =>
       /\ sensorData = [exists |-> TRUE, pre |-> 0,
                        lines |-> <<SensorHeader(powerMonitorMode)>>]
       /\ FileSize(sensorData) = Len(SensorHeader(powerMonitorMode)) + 2
       /\ loggingEnabled
  /\ (obs.op = "clearpower" /\ obs.wrote) =>
       /\ powerData = [exists |-> TRUE, pre |-> 0, lines |-> <<PowerHeader>>]
       /\ FileSize(powerData) = Len(PowerHeader) + 2
       /\ powerLoggingEnabled

\* A full sensor file was cleared.
C6_Witness ==
  /\ obs.op = "clear" /\ obs.wrote /\ obs.len >= MAX_FILE_SIZE
  /\ loggingEnabled /\ FileSize(sensorData) < MAX_FILE_SIZE

\* The unsigned decimal number a string of digits denotes, modulo 2^32.
DigitValue(c) == CHOOSE d \in 0..9 : DigitChar(d) = c

RECURSIVE ParseDecimal(_)
ParseDecimal(s) ==
  IF s = <<>> THEN <<0, 0>>
  ELSE LET u  == ParseDecimal(SubSeq(s, 1, Len(s) - 1))
           lo == u[2] * 10 + DigitValue(s[Len(s)])
       IN  <<(u[1] * 10 + lo \div Half) % Half, lo % Half>>

\* The lines of a text whose lines end with CR LF.
RECURSIVE LinesOf(_)
LinesOf(bytes) ==
  IF bytes = <<>> THEN <<>>
  ELSE LET k == indexOf(bytes, LineTerminator)
       IN  IF k = -1 THEN <<bytes>>
           ELSE <<SubSeq(bytes, 1, k)>> \o LinesOf(SubSeq(bytes, k + 3, Len(bytes)))

\* The timestamp prefix of a stored record and the packet after it.
TimestampOf(line) == ParseDecimal(SubSeq(line, 1, indexOf(line, <<",">>)))

PacketOf(line) == SubSeq(line, indexOf(line, <<",">>) + 2, Len(line))

\* The sensor file was created or cleared by this run and is below its ceiling.
FreshSensorFile ==
  /\ sensorData.exists /\ sensorData.pre = 0
  /\ sensorData.lines # <<>>
  /\ Head(sensorData.lines) = SensorHeader(powerMonitorMode)
  /\ FileSize(sensorData) < MAX_FILE_SIZE

\* The records read back from the sensor file are the accepted packets in
\* arrival order, each after the timestamp of its arrival.
ReadBackInArrivalOrder ==
  FreshSensorFile =>
    LET read == LinesOf(printStoredData(sensorData.lines))
        recs == Tail(read)
    IN  /\ Head(read) = SensorHeader(powerMonitorMode)
        /\ Len(recs) = Len(arrivals)
        /\ \A i \in 1..Len(recs) :
             /\ TimestampOf(recs[i]) = arrivals[i][1]
             /\ PacketOf(recs[i]) = arrivals[i][2]

\* C7 as stated: the records read back from a fresh sensor file are the
\* accepted packets in arrival order, each after its timestamp, and the
\* timestamps read back are non-decreasing.
C7_Original ==
  /\ ReadBackInArrivalOrder
  /\ FreshSensorFile =>
       LET recs == Tail(LinesOf(printStoredData(sensorData.lines)))
       IN  \A i \in 1..(Len(recs) - 1) :
             U32Geq(TimestampOf(recs[i + 1]), TimestampOf(recs[i]))

\* The substrings of ESP32 boot messages.
Markers ==
  { <<"e","t","s">>, <<"r","s","t",":">>, <<"b","o","o","t",":">>,
    <<"c","o","n","f","i","g","s","i","p",":">>, <<"l","o","a","d",":">>,
    <<"e","n","t","r","y">>, <<"m","o","d","e",":">>}

Contains(line, sub) ==
  \E i \in 1..(Len(line) - Len(sub) + 1) : SubSeq(line, i, i + Len(sub) - 1) = sub

\* The conditions of C8 for a line of the given number of fields.
TelemetryShaped(line, fields) ==
  /\ Len(line) >= 10
  /\ line[1] \in {"0","1","2","3","4","5","6","7","8","9","-"}
  /\ Cardinality({i \in 1..Len(line) : line[i] = ","}) = fields - 1
  /\ \A m \in Markers : ~Contains(line, m)

\* C8 as stated: 7 fields are expected when the power sensor is with the
\* remote sensor node, 9 otherwise.
C8_Original ==
  pc = "classified" =>
    /\ obs.op = "telemetry" <=>
         TelemetryShaped(receivedPacket,
                         IF PowerSensorAtSensorNode(powerMonitorMode) THEN 7 ELSE 9)
    /\ (receivedPacket = Line7 /\ PowerSensorAtSensorNode(powerMonitorMode))
         => obs.op = "telemetry"

\* C8, amended: a line is a data packet iff it is at least 10 characters
\* long, starts with a digit or '-', holds expectedFieldCount - 1 commas and
\* none of the boot markers, where expectedFieldCount is 9 when the power
\* sensor is with the remote sensor node (POWER_MONITOR_MODE 0) and 7 when it
\* is on this modem (POWER_MONITOR_MODE 1).  The 7-field line is a data packet
\* in the build with the power sensor on this modem; a line holding rst: or
\* boot: is ignored whatever its comma count.
C8_Classification ==
  pc = "classified" =>
    /\ obs.op = "telemetry" <=>
         TelemetryShaped(receivedPacket,
                         IF PowerSensorAtSensorNode(powerMonitorMode) THEN 9 ELSE 7)
    /\ (receivedPacket = Line7 /\ ~PowerSensorAtSensorNode(powerMonitorMode))
         => obs.op = "telemetry"
    /\ (Contains(receivedPacket, <<"r","s","t",":">>)
          \/ Contains(receivedPacket, <<"b","o","o","t",":">>))
         => obs.op = "ignored"

\* The 7-field line was classified as a data packet.
C8_Witness ==
  pc = "classified" /\ receivedPacket = Line7 /\ obs.op = "telemetry"

\* C9 as stated: a latch is false exactly when a size check since the last
\* successful clear or wipe (or since boot) read a length at or above the
\* ceiling.
C9_Original ==
  /\ ~loggingEnabled <=> seenFull.data
  /\ ~powerLoggingEnabled <=> seenFull.power

\* C10 as stated: a failed append open changes neither the files, nor the
\* latches, nor the scheduler.
C10_Original ==
  [][ (obs'.op \in AppendOps /\ obs'.open = "failed") =>
        UNCHANGED <<sensorData, powerData, loggingEnabled, powerLoggingEnabled,
                    Scheduler>> ]_vars

\* C10, amended: a failed append open changes neither the files nor the
\* latches; on the telemetry path the scheduler is unchanged too, the
\* active-phase path still starts the cycle (activeReadingTaken and
\* powerReadingScheduled set, lastSensorPacketTime the current time), and the
\* sleep-phase path still ends it (both flags reset).
C10_FailedOpen ==
  [][ (obs'.op \in AppendOps /\ obs'.open = "failed") =>
        /\ UNCHANGED <<sensorData, powerData, loggingEnabled, powerLoggingEnabled>>
        /\ obs'.op = "telemetry" => UNCHANGED Scheduler
        /\ obs'.op = "active" =>
             /\ activeReadingTaken' /\ powerReadingScheduled'
             /\ lastSensorPacketTime' = now
        /\ obs'.op = "sleep" =>
             /\ ~activeReadingTaken' /\ ~powerReadingScheduled'
             /\ UNCHANGED lastSensorPacketTime ]_vars

\* The append open of a data packet failed.
C10_Witness ==
  /\ obs.op = "telemetry" /\ obs.open = "failed" /\ ~obs.wrote
  /\ loggingEnabled /\ pc = "loop"

\* The file a stream holds right after its creation: the header line only.
HeaderOnly(header) == [exists |-> TRUE, pre |-> 0, lines |-> <<header>>]

\* The streams of the build are all header-only and their latches true.
AllWiped ==
  /\ sensorData = HeaderOnly(SensorHeader(powerMonitorMode))
  /\ loggingEnabled
  /\ powerMonitorMode = 1 => (powerData = HeaderOnly(PowerHeader) /\ powerLoggingEnabled)

\* C11 as stated: a wipe either leaves every stream of the build header-only
\* with its latch true, or leaves all files and latches as they were.
C11_Original ==
  [][ obs'.op = "wipe" =>
        \/ AllWiped'
        \/ UNCHANGED <<sensorData, powerData, loggingEnabled, powerLoggingEnabled>> ]_vars

\* C12: print, printpower, status and help leave both files, both latches
\* and the scheduler as they were, also when a file is at its ceiling while
\* its latch is still true.
C12_ReadOnly ==
  [][ obs'.op = "readonly" =>
        UNCHANGED <<sensorData, powerData, loggingEnabled, powerLoggingEnabled,
                    Scheduler>> ]_vars

\* A read-only command ran with the sensor file at its ceiling and the latch true.
C12_Witness ==
  /\ obs.op = "readonly" /\ pc = "loop"
  /\ FileSize(sensorData) >= MAX_FILE_SIZE /\ loggingEnabled

-----------------------------------------------------------------------------
(* Two runs of the logger side by side.  A run is the record of the        *)
(* sketch's globals and files; the steps of loop() are functions from a    *)
(* run, the time and the step's inputs to the run after the step.  twin is *)
(* <<run, run>>: both runs get the same lines, clock readings and storage  *)
(* outcomes and may differ in printReceivedPackets and in toggle lines.    *)

\* A variant of ShouldSave with the save nested in the verbose block.
ShouldSave_Verbose(enabled, verbose) == enabled /\ verbose

\* Line 253, reached after the verbose block of lines 247-250 whatever
\* printReceivedPackets is.
ShouldSave(enabled, verbose) == enabled

\* The globals of lines 22-37 after setup() created both files.
BootedRun(flash, verbose) ==
  [sensorData |-> flash[1], powerData |-> flash[2],
   loggingEnabled |-> TRUE, powerLoggingEnabled |-> TRUE,
   powerReadingScheduled |-> FALSE, activeReadingTaken |-> FALSE,
   lastSensorPacketTime |-> U32(0),
   printReceivedPackets |-> verbose, echo |-> FALSE]

\* Lines 167-196 on a run; echo: the record was printed (lines 188-190).
SleepStep(st, mode, t, r, okCheck, okAppend) ==
  IF ~(mode = 1 /\ st.powerReadingScheduled /\ SleepDue(t, st.lastSensorPacketTime))
  THEN [st EXCEPT !.echo = FALSE]
  ELSE LET a == IF st.powerLoggingEnabled
                THEN SleepAppend(st.powerData, st.powerLoggingEnabled,
                                 PowerRecord(t, r[1], r[2], "s"), okCheck, okAppend)
                ELSE [file |-> st.powerData, latch |-> st.powerLoggingEnabled,
                      full |-> FALSE, obs |-> Quiet("sleep")]
       IN  [st EXCEPT !.powerData = a.file,
                      !.powerLoggingEnabled = a.latch,
                      !.powerReadingScheduled = FALSE,
                      !.activeReadingTaken = FALSE,
                      !.echo = a.obs.wrote /\ st.printReceivedPackets]

\* Lines 201-235 on a run; echo: the record was printed (lines 220-222).
ActiveStep(st, mode, t, r, okCheck, okAppend) ==
  IF ~(mode = 1 /\ ActiveReadingDue(st.powerLoggingEnabled, st.activeReadingTaken))
  THEN [st EXCEPT !.echo = FALSE]
  ELSE LET a == ActiveAppend(st.powerData, PowerRecord(t, r[1], r[2], "a"),
                             okCheck, okAppend)
       IN  [st EXCEPT !.powerData = a.file,
                      !.activeReadingTaken = IF a.taken THEN TRUE ELSE @,
                      !.lastSensorPacketTime = IF a.taken THEN t ELSE @,
                      !.powerReadingScheduled = IF a.taken THEN TRUE ELSE @,
                      !.echo = a.obs.wrote /\ st.printReceivedPackets]

\* Lines 241-309 on a run; ok1, ok2, ok3: the outcomes of the storage calls
\* of the branch (size check and append; remove and create; format, create
\* of the sensor file and create of the power file).
DispatchStep(st, mode, t, packet, ok1, ok2, ok3) ==
  LET route == Route(packet, mode)
  IN  IF route = "telemetry"
      THEN IF ShouldSave(st.loggingEnabled, st.printReceivedPackets)
           THEN LET a == TelemetryAppend(st.sensorData, st.loggingEnabled,
                                         TimestampedPacket(t, packet), ok1, ok2)
                IN  [st EXCEPT !.sensorData = a.file,
                               !.loggingEnabled = a.latch,
                               !.echo = st.printReceivedPackets]
           ELSE [st EXCEPT !.echo = st.printReceivedPackets]
      ELSE IF route = "clear"
      THEN LET c == ClearFile(st.sensorData, SensorHeader(mode), st.loggingEnabled,
                              ok1, ok2)
           IN  [st EXCEPT !.sensorData = c.file, !.loggingEnabled = c.latch,
                          !.echo = FALSE]
      ELSE IF route = "clearpower"
      THEN LET c == ClearFile(st.powerData, PowerHeader, st.powerLoggingEnabled,
                              ok1, ok2)
           IN  [st EXCEPT !.powerData = c.file, !.powerLoggingEnabled = c.latch,
                          !.echo = FALSE]
      ELSE IF route = "wipe"
      THEN IF ~ok1 THEN [st EXCEPT !.echo = FALSE]
           ELSE LET d == RecreateFile(SensorHeader(mode), st.loggingEnabled, ok2)
                    p == IF mode = 1
                         THEN RecreateFile(PowerHeader, st.powerLoggingEnabled, ok3)
                         ELSE [file |-> Missing, latch |-> st.powerLoggingEnabled,
                               created |-> FALSE]
                IN  [st EXCEPT !.sensorData = d.file, !.loggingEnabled = d.latch,
                               !.powerData = p.file, !.powerLoggingEnabled = p.latch,
                               !.echo = FALSE]
      ELSE IF route = "toggle"
      THEN [st EXCEPT !.printReceivedPackets = ~@, !.echo = FALSE]
      ELSE IF route = "filtered"
      THEN [st EXCEPT !.echo = st.printReceivedPackets /\ Len(packet) > 0]
      ELSE [st EXCEPT !.echo = FALSE]

\* What the flash holds when the two runs start, after setup().
TwinFlash(mode) ==
  IF mode = 1
  THEN { <<Println(EmptyFile, HeaderLocalPower), Println(EmptyFile, PowerHeader)>>,
         <<Stored(MAX_FILE_SIZE - 5), Stored(MAX_POWER_FILE_SIZE - 20)>> }
  ELSE { <<Println(EmptyFile, HeaderRemotePower), Missing>>,
         <<Stored(MAX_FILE_SIZE - 5), Missing>> }

\* Lines the sender puts on the serial link of the two runs.
TwinLines ==
  { Line9Long, LineBoot, Tok_toggle, Tok_clear, Tok_clearpower, Tok_wipe }

\* The records and headers a run holds in its files.
TwinRecords(st) == Len(st.sensorData.lines) + Len(st.powerData.lines)

InitTwin ==
  /\ powerMonitorMode \in {0, 1}
  /\ mounted = TRUE
  /\ \E flash \in TwinFlash(powerMonitorMode), v1, v2 \in BOOLEAN :
       twin = <<BootedRun(flash, v1), BootedRun(flash, v2)>>
  /\ pc = "loop"
  /\ now = U32(0)
  /\ receivedPacket = <<>>
  /\ obs = Quiet("none")
  /\ sensorData = Missing
  /\ powerData = Missing
  /\ loggingEnabled = TRUE
  /\ powerLoggingEnabled = TRUE
  /\ printReceivedPackets = TRUE
  /\ powerReadingScheduled = FALSE
  /\ activeReadingTaken = FALSE
  /\ lastSensorPacketTime = U32(0)
  /\ seenFull = [data |-> FALSE, power |-> FALSE]
  /\ cycleActive = 0
  /\ cycleSleep = 0
  /\ appended = 0
  /\ activeWritten = FALSE
  /\ arrivals = <<>>
  /\ handles = {}

\* The variables of the single run, unused by the two runs.
TwinFrame ==
  UNCHANGED <<powerMonitorMode, mounted, sensorData, powerData, loggingEnabled,
              powerLoggingEnabled, printReceivedPackets, powerReadingScheduled,
              activeReadingTaken, lastSensorPacketTime, receivedPacket, obs,
              seenFull, cycleActive, cycleSleep, appended, activeWritten, arrivals,
              handles>>

\* The two runs hold no more than MaxRecords records beside the headers.
TwinBudget(runs) ==
  \A i \in 1..2 : TwinRecords(runs[i]) <= MaxRecords + 2

\* Lines 165-197 in both runs.
TwinSleep ==
  /\ pc = "loop"
  /\ \E r \in Readings, okCheck, okAppend \in BOOLEAN :
       LET runs == [i \in 1..2 |->
                      SleepStep(twin[i], powerMonitorMode, now, r, okCheck, okAppend)]
       IN  TwinBudget(runs) /\ twin' = runs
  /\ pc' = "serial"
  /\ UNCHANGED now
  /\ TwinFrame

\* Line 200 false in both runs.
TwinNoSerialData ==
  /\ pc = "serial"
  /\ pc' = "loop"
  /\ UNCHANGED <<now, twin>>
  /\ TwinFrame

\* Lines 200-235 in both runs.
TwinActive ==
  /\ pc = "serial"
  /\ \E r \in Readings, okCheck, okAppend \in BOOLEAN :
       LET runs == [i \in 1..2 |->
                      ActiveStep(twin[i], powerMonitorMode, now, r, okCheck, okAppend)]
       IN  TwinBudget(runs) /\ twin' = runs
  /\ pc' = "read"
  /\ UNCHANGED now
  /\ TwinFrame

\* Lines 237-310 in both runs: the same line, or a toggle line in one run
\* and a line without effect in the other.
TwinDispatch ==
  /\ pc = "read"
  /\ \E raw \in TwinLines, ok1, ok2, ok3 \in BOOLEAN :
     \E both \in IF Route(ReadLine(raw), powerMonitorMode) = "toggle"
                 THEN BOOLEAN ELSE {TRUE} :
       LET line  == ReadLine(raw)
           other == IF both THEN line ELSE ReadLine(LineBoot)
           runs  == <<DispatchStep(twin[1], powerMonitorMode, now, line, ok1, ok2, ok3),
                      DispatchStep(twin[2], powerMonitorMode, now, other, ok1, ok2, ok3)>>
       IN  TwinBudget(runs) /\ twin' = runs
  /\ pc' = "loop"
  /\ UNCHANGED now
  /\ TwinFrame

\* millis() advances in both runs, between two iterations of loop().
TwinTick ==
  /\ pc = "loop"
  /\ ClockFree
  /\ now' = U32Add(now, U32(ClockStep))
  /\ UNCHANGED <<pc, twin>>
  /\ TwinFrame

NextTwin ==
  \/ TwinSleep
  \/ TwinNoSerialData
  \/ TwinActive
  \/ TwinDispatch
  \/ TwinTick

SpecTwin == InitTwin /\ [][NextTwin]_vars

\* The part of a run the print setting must not influence.
LowOf(st) ==
  [sensorData |-> st.sensorData, powerData |-> st.powerData,
   loggingEnabled |-> st.loggingEnabled,
   powerLoggingEnabled |-> st.powerLoggingEnabled,
   powerReadingScheduled |-> st.powerReadingScheduled,
   activeReadingTaken |-> st.activeReadingTaken,
   lastSensorPacketTime |-> st.lastSensorPacketTime]

\* C13: two runs given the same lines, clock readings and storage outcomes,
\* differing only in printReceivedPackets and in toggle lines, hold the same
\* files, latches and scheduler state at every step.
C13_PrintModeIndependent == LowOf(twin[1]) = LowOf(twin[2])

\* A data packet was saved in both runs, one quiet and one verbose.
C13_Witness ==
  /\ twin[1].printReceivedPackets # twin[2].printReceivedPackets
  /\ twin[1].echo # twin[2].echo
  /\ Len(twin[1].sensorData.lines) >= 2
  /\ twin[1].sensorData = twin[2].sensorData
  /\ pc = "loop"

-----------------------------------------------------------------------------

\* The last line of a file is an 'a' record stamped with the time t.
EndsWithActiveRecord(f, t) ==
  /\ f.lines # <<>>
  /\ LET line == f.lines[Len(f.lines)]
         n    == Len(U32ToString(t))
     IN  /\ Len(line) > n + 2
         /\ SubSeq(line, 1, n + 1) = U32ToString(t) \o <<",">>
         /\ SubSeq(line, Len(line) - 1, Len(line)) = <<",", "a">>

\* C14 as stated: every active-phase step appends one 'a' record, sets
\* lastSensorPacketTime to the current time and sets both scheduler flags,
\* whatever the length of the power file.
C14_Original ==
  [][ obs'.op = "active" =>
        /\ activeReadingTaken' /\ powerReadingScheduled'
        /\ lastSensorPacketTime' = now
        /\ Len(powerData'.lines) = Len(powerData.lines) + 1
        /\ EndsWithActiveRecord(powerData', now) ]_vars

\* C14, amended: an active-phase step whose size check reads a length below
\* the ceiling sets lastSensorPacketTime to the current time and both
\* scheduler flags, and appends one 'a' record stamped with that time iff
\* the append open succeeds; a step whose size check fails or reads a length
\* at or above the ceiling appends nothing and leaves the scheduler as it was.
C14_IdleToActiveTaken ==
  [][ obs'.op = "active" =>
        IF obs'.check = "ok" /\ obs'.size < MAX_POWER_FILE_SIZE
        THEN /\ activeReadingTaken' /\ powerReadingScheduled'
             /\ lastSensorPacketTime' = now
             /\ obs'.open = "ok" =>
                  /\ Len(powerData'.lines) = Len(powerData.lines) + 1
                  /\ EndsWithActiveRecord(powerData', now)
             /\ obs'.open # "ok" => UNCHANGED powerData
        ELSE UNCHANGED <<powerData, Scheduler>> ]_vars

\* An 'a' record was appended and the scheduler moved to ActiveTaken.
C14_Witness ==
  /\ obs.op = "active" /\ obs.wrote /\ pc = "read"
  /\ activeReadingTaken /\ powerReadingScheduled /\ lastSensorPacketTime = now
  /\ EndsWithActiveRecord(powerData, now)

-----------------------------------------------------------------------------
(* The scheduler under a loop() that keeps iterating and a clock that      *)
(* keeps running: the POWER_MONITOR_MODE 1 build, a sender that transmits  *)
(* while the clock is within its horizon, and a clock that runs on until   *)
(* the pending sleep-phase reading is due.                                 *)

\* Lines the sender puts on the serial link.
LiveLines == { LineBoot, Tok_clearpower }

InitLive == Init /\ powerMonitorMode = 1

\* millis() advances past the horizon while a sleep-phase reading is pending.
TickToDeadline ==
  /\ pc \notin {"boot", "halted"}
  /\ ~ClockFree
  /\ powerReadingScheduled /\ ~SleepDue(now, lastSensorPacketTime)
  /\ now' = U32Add(now, U32(ClockStep))
  /\ obs' = Quiet("idle")
  /\ UNCHANGED <<powerMonitorMode, mounted, sensorData, powerData, loggingEnabled,
                 powerLoggingEnabled, printReceivedPackets, powerReadingScheduled,
                 activeReadingTaken, lastSensorPacketTime, pc, receivedPacket,
                 seenFull, cycleActive, cycleSleep, appended, activeWritten,
                 arrivals, twin, handles>>

\* The steps of loop(); serial data arrives only within the clock's horizon.
LoopStep ==
  \/ PowerSleepReading
  \/ SleepNotDue
  \/ NoSerialData
  \/ ClockFree /\ PowerActiveReading
  \/ ClockFree /\ SerialAvailable
  \/ \E raw \in LiveLines : Filtered(ReadLine(raw))
  \/ \E raw \in LiveLines : ClearPowerData(ReadLine(raw))

NextLive ==
  \/ Setup
  \/ LoopStep
  \/ Tick
  \/ TickToDeadline
  \/ IdleUntilWrap

\* loop() is called again and again, and millis() advances.
SpecLive ==
  /\ InitLive
  /\ [][NextLive]_vars
  /\ WF_vars(LoopStep)
  /\ WF_vars(Tick)
  /\ WF_vars(TickToDeadline)

\* C15: the sleep-phase firing never happens while millis() -
\* lastSensorPacketTime, subtracted modulo 2^32, is below 30000; and a
\* scheduler in ActiveTaken eventually fires and is Idle again, both flags
\* cleared, whether or not the sleep-phase record is appended.
C15_SleepDeadline ==
  /\ [](obs.op = "sleep" =>
          /\ U32Geq(U32Sub(now, lastSensorPacketTime), U32(30000))
          /\ ~powerReadingScheduled /\ ~activeReadingTaken)
  /\ (powerReadingScheduled /\ activeReadingTaken)
       ~> (~powerReadingScheduled /\ ~activeReadingTaken)

\* The firing happened after millis() wrapped between trigger and deadline.
C15_Witness ==
  /\ obs.op = "sleep" /\ pc = "serial"
  /\ ~U32Geq(now, lastSensorPacketTime)
  /\ ~powerReadingScheduled /\ ~activeReadingTaken

-----------------------------------------------------------------------------
\* C16: between operations (after setup, after each step of loop() and
\* after each command) no File object holds an open handle, whichever
\* branch the operation took.
C16_NoHandleHeld == handles = {}

\* The active block found the power file at its ceiling and closed the
\* check handle in the else-branch of lines 231-233.
C16_Witness ==
  /\ obs.op = "active" /\ obs.check = "ok" /\ obs.size >= MAX_POWER_FILE_SIZE
  /\ pc = "read"
  /\ handles = {}

-----------------------------------------------------------------------------
\* The check of isValidDataPacket that rejects the line, in source order.
RejectedBy(line, mode) ==
  IF Len(line) < 10 THEN "length"
  ELSE IF line[1] \notin {"0","1","2","3","4","5","6","7","8","9","-"} THEN "first"
  ELSE IF Cardinality({i \in 1..Len(line) : line[i] = ","}) # (IF mode = 1 THEN 6 ELSE 8)
  THEN "commas"
  ELSE IF \E m \in Markers : Contains(line, m) THEN "boot"
  ELSE "none"

CommandNames ==
  {"print", "printpower", "clear", "clearpower", "toggle", "status", "wipe", "help"}

\* The command a token names; printpower and clearpower exist only in the
\* build with the power sensor on this modem.
TokenCommand(line, mode) ==
  IF line \in {Tok_print, Tok_show, Tok_data} THEN "print"
  ELSE IF line \in {Tok_printpower, Tok_showpower, Tok_power}
  THEN (IF mode = 1 THEN "printpower" ELSE "filtered")
  ELSE IF line \in {Tok_clear, Tok_delete} THEN "clear"
  ELSE IF line \in {Tok_clearpower, Tok_deletepower}
  THEN (IF mode = 1 THEN "clearpower" ELSE "filtered")
  ELSE IF line \in {Tok_toggle, Tok_quiet, Tok_verbose} THEN "toggle"
  ELSE IF line = Tok_status THEN "status"
  ELSE IF line \in {Tok_wipe, Tok_format} THEN "wipe"
  ELSE IF line \in {Tok_help, Tok_qmark} THEN "help"
  ELSE "filtered"

\* C17 as stated: a command runs only for a line rejected by the comma
\* count or a boot marker; a line rejected for its length or its first
\* character runs no command; a data packet runs no command.
C17_Original ==
  pc = "routed" =>
    /\ obs.op \in CommandNames
         => RejectedBy(receivedPacket, powerMonitorMode) \in {"commas", "boot"}
    /\ RejectedBy(receivedPacket, powerMonitorMode) = "none" => obs.op = "telemetry"

\* C17, amended: every line that is not a data packet, whichever check of
\* the validator rejected it (length, first character, comma count or boot
\* marker), is compared with the command tokens and runs the command it
\* names, or nothing when it names none; a data packet is stored as
\* telemetry and never runs a command.
C17_Routing ==
  pc = "routed" =>
    /\ RejectedBy(receivedPacket, powerMonitorMode) = "none" => obs.op = "telemetry"
    /\ RejectedBy(receivedPacket, powerMonitorMode) # "none"
         => obs.op = TokenCommand(receivedPacket, powerMonitorMode)

\* The 5-character line print, rejected for its length, ran the print command.
C17_Witness ==
  /\ pc = "routed" /\ receivedPacket = Tok_print
  /\ RejectedBy(receivedPacket, powerMonitorMode) = "length"
  /\ obs.op = "print"

-----------------------------------------------------------------------------
\* g is f with lines appended at its end (f created empty when absent).
Extends(f, g) ==
  /\ g.exists /\ g.pre = f.pre
  /\ Len(g.lines) > Len(f.lines)
  /\ SubSeq(g.lines, 1, Len(f.lines)) = f.lines

\* The step neither opened nor measured a file.
Untouched(o) == o.check = "none" /\ o.open = "none" /\ o.size = -1 /\ ~o.wrote

\* C18: with the latch of a stream false, a valid telemetry line (sensor
\* stream) or a byte-availability or sleep-deadline event (power stream)
\* neither opens nor measures the file and leaves it as it was; a file
\* changes only by an append made while its latch is true, or by clear,
\* clearpower or wipe.
C18_DisabledUntouched ==
  [][ /\ (~loggingEnabled /\ obs'.op = "telemetry")
           => (Untouched(obs') /\ sensorData' = sensorData)
      /\ (~powerLoggingEnabled /\ obs'.op \in {"sleep", "active", "skip"})
           => (Untouched(obs') /\ powerData' = powerData)
      /\ sensorData' # sensorData
           => \/ loggingEnabled /\ Extends(sensorData, sensorData')
              \/ obs'.op \in {"clear", "wipe"}
      /\ powerData' # powerData
           => \/ powerLoggingEnabled /\ Extends(powerData, powerData')
              \/ obs'.op \in {"clearpower", "wipe"}
    ]_vars

\* A valid telemetry line arrived with logging disabled and the full file
\* was neither opened nor changed.
C18_Witness ==
  /\ obs.op = "telemetry" /\ Untouched(obs)
  /\ ~loggingEnabled
  /\ FileSize(sensorData) >= MAX_FILE_SIZE
  /\ pc = "loop"

-----------------------------------------------------------------------------
\* C19: between the steps of loop(), powerReadingScheduled and
\* activeReadingTaken are equal: the scheduler is Idle (both false) or
\* ActiveTaken (both true), whatever events, commands and storage failures
\* occurred.
C19_FlagsTogether == powerReadingScheduled = activeReadingTaken

\* ActiveTaken entered by a step whose append open failed.
C19_Witness ==
  /\ obs.op = "active" /\ obs.open = "failed"
  /\ powerReadingScheduled /\ activeReadingTaken
  /\ pc = "read"

-----------------------------------------------------------------------------
\* The file an append step writes to.
StreamOf(op, data, power) == IF op = "telemetry" THEN data ELSE power

\* The bytes of the longest record of the model with its line terminator:
\* the 51-character line behind a 10-digit timestamp.
LargestAppend == PrintlnBytes(TimestampedPacket(<<Half - 1, Half - 1>>, Line9Long))

\* C20 as stated: a file that held less than its ceiling when it was last
\* booted or created stays below ceiling + L, and once an append has taken
\* it to its ceiling or above no append step lengthens it.
C20_Original ==
  [][ /\ (sensorData'.exists /\ sensorData'.pre < MAX_FILE_SIZE)
           => FileSize(sensorData') < MAX_FILE_SIZE + LargestAppend
      /\ (powerData'.exists /\ powerData'.pre < MAX_POWER_FILE_SIZE)
           => FileSize(powerData') < MAX_POWER_FILE_SIZE + LargestAppend
      /\ (obs'.op \in AppendOps
            /\ StreamOf(obs'.op, sensorData, powerData).pre < Capacity(obs'.op)
            /\ FileSize(StreamOf(obs'.op, sensorData, powerData)) >= Capacity(obs'.op))
           => FileSize(StreamOf(obs'.op, sensorData', powerData'))
                <= FileSize(StreamOf(obs'.op, sensorData, powerData))
    ]_vars

=============================================================================
